---- MODULE Spec2Model ----
(***************************************************************************)
(* git-llm-commit: src/src/git_llm_commit/llm_commit.py                    *)
(*                                                                         *)
(* The interactive commit flow of llm_commit() as a state machine, with    *)
(* the pure helpers (count_diff_lines, the size tiers of                   *)
(* CommitMessageGenerator, RiskyFileDetector, the str methods the code     *)
(* calls) as operators over TLA+ strings.                                  *)
(*                                                                         *)
(* Text is a TLA+ string; Len, SubSeq and \o act on it character by        *)
(* character.  The backtick (U+0060) cannot be written inside a TLA+       *)
(* string literal, so the character "^" stands for it throughout.          *)
(***************************************************************************)
EXTENDS Integers, Sequences, FiniteSets, TLC

VARIABLES
    pc,              \* position of llm_commit(): a flow state of the loop
    exit_code,       \* process exit status, -1 while the process runs
    staged_files,    \* llm_commit: staged_files
    risky_files,     \* llm_commit: risky_files
    diff,            \* llm_commit: diff
    llm_request,     \* what generate() handed to chat.completions.create
    commit_message,  \* llm_commit: commit_message (the current draft)
    response,        \* llm_commit: response (last value of prompt_user)
    git_editor,      \* llm_commit: git_editor
    tmp_path,        \* edit_message: tmp_path (0: none)
    tmp_files,       \* the file system: temporary files that exist, name -> text
    effects,         \* every collaborator call, prompt and print so far, in order
    hist             \* history: what the user and the collaborators did

vars == <<pc, exit_code, staged_files, risky_files, diff, llm_request,
          commit_message, response, git_editor, tmp_path, tmp_files, effects, hist>>

-----------------------------------------------------------------------------
(* Bounds of the model *)

\* the y/n/e prompt is shown at most this many times in a run
MaxPrompts == 3
\* the diffs of the classification specification change 0..MaxChanged lines
MaxChanged == 202

-----------------------------------------------------------------------------
(* str methods *)

Min(S) == CHOOSE i \in S : \A j \in S : i <= j
Max(S) == CHOOSE i \in S : \A j \in S : j <= i

CharAt(s, i) == SubSeq(s, i, i)

\* str.startswith
StartsWith(s, p) == Len(s) >= Len(p) /\ SubSeq(s, 1, Len(p)) = p

\* str.endswith; also re.search of a literal followed by $ in a text
\* without line breaks
EndsWith(s, p) == Len(s) >= Len(p) /\ SubSeq(s, Len(s) - Len(p) + 1, Len(s)) = p

\* re.search of a literal: the literal occurs somewhere in s
Contains(s, p) == \E i \in 1..(Len(s) - Len(p) + 1) : SubSeq(s, i, i + Len(p) - 1) = p

\* str.isspace for one character (the ASCII whitespace str.strip() removes)
IsSpace(c) == c \in {" ", "\t", "\n", "\r", "\f"}

\* str.strip(): what lies between the first and the last character that
\* is no whitespace
Strip(s) ==
    LET keep == {i \in 1..Len(s) : ~IsSpace(CharAt(s, i))}
    IN  IF keep = {} THEN "" ELSE SubSeq(s, Min(keep), Max(keep))

BACKTICK == "^"

\* str.strip("`")
StripBackticks(s) ==
    LET keep == {i \in 1..Len(s) : CharAt(s, i) # BACKTICK}
    IN  IF keep = {} THEN "" ELSE SubSeq(s, Min(keep), Max(keep))

UpperAlphabet == "ABCDEFGHIJKLMNOPQRSTUVWXYZ"
LowerAlphabet == "abcdefghijklmnopqrstuvwxyz"

LowerChar(c) ==
    IF \E i \in 1..Len(UpperAlphabet) : CharAt(UpperAlphabet, i) = c
    THEN CharAt(LowerAlphabet, CHOOSE i \in 1..Len(UpperAlphabet) : CharAt(UpperAlphabet, i) = c)
    ELSE c

RECURSIVE LowerFrom(_, _)
LowerFrom(s, i) == IF i > Len(s) THEN "" ELSE LowerChar(CharAt(s, i)) \o LowerFrom(s, i + 1)

\* str.lower()
Lower(s) == LowerFrom(s, 1)

\* s repeated n times (builds the inputs)
RECURSIVE Rep(_, _)
Rep(s, n) ==
    IF n <= 0 THEN ""
    ELSE IF n = 1 THEN s
    ELSE Rep(s, n \div 2) \o Rep(s, n - (n \div 2))

-----------------------------------------------------------------------------
(* CommitConfig: the fields the flow reads (fixed defaults, never set from   *)
(* the environment)                                                          *)

small_change_threshold == 50
large_change_threshold == 200
small_change_tokens == 100
medium_change_tokens == 200
large_change_tokens == 400

-----------------------------------------------------------------------------
(* count_diff_lines *)

\* diff.splitlines(): a line starts at the first character and after every
\* line break, and a final line break opens no further line.  The texts of
\* this model break lines with "\n" only.
LineStarts(d) == {i \in 1..Len(d) : i = 1 \/ CharAt(d, i - 1) = "\n"}

\* line.startswith(p) for the line of d that starts at position i; p holds
\* no line break, so a match never runs past the end of the line
LineStartsWith(d, i, p) ==
    i + Len(p) - 1 <= Len(d) /\ SubSeq(d, i, i + Len(p) - 1) = p

\* the condition of the loop body: a single +/- line, no +++/--- metadata
IsChangedLine(d, i) ==
    /\ LineStartsWith(d, i, "+") \/ LineStartsWith(d, i, "-")
    /\ ~LineStartsWith(d, i, "+++")
    /\ ~LineStartsWith(d, i, "---")

count_diff_lines(d) == Cardinality({i \in LineStarts(d) : IsChangedLine(d, i)})

-----------------------------------------------------------------------------
(* CommitMessageGenerator *)

\* _get_user_message: the tier chosen for the prompt
detail_level(d) ==
    LET diff_size == count_diff_lines(d)
    IN  IF diff_size <= small_change_threshold THEN "concise"
        ELSE IF diff_size <= large_change_threshold THEN "moderate"
        ELSE "detailed"

\* _get_user_message: the parts the f-string interpolates into the prompt
_get_user_message(d) ==
    [diff |-> d, detail_level |-> detail_level(d), diff_size |-> count_diff_lines(d)]

\* a variant of max_tokens whose thresholds are exclusive upper bounds
max_tokens_exclusive(d) ==
    LET diff_size == count_diff_lines(d)
    IN  IF diff_size < small_change_threshold THEN small_change_tokens
        ELSE IF diff_size < large_change_threshold THEN medium_change_tokens
        ELSE large_change_tokens

\* generate: the token budget, computed a second time from the diff
max_tokens(d) ==
    LET diff_size == count_diff_lines(d)
    IN  IF diff_size <= small_change_threshold THEN small_change_tokens
        ELSE IF diff_size <= large_change_threshold THEN medium_change_tokens
        ELSE large_change_tokens

\* generate: the arguments of chat.completions.create
ChatRequest(d) == [user_message |-> _get_user_message(d), max_tokens |-> max_tokens(d)]

NoRequest == [user_message |-> [diff |-> "", detail_level |-> "", diff_size |-> 0],
              max_tokens |-> 0]

\* generate: the check of the response's content ("" stands for None too)
ContentRejected(content) == content = ""

\* generate: the value returned for an accepted content
CleanContent(content) == StripBackticks(Strip(content))

-----------------------------------------------------------------------------
(* RiskyFileDetector *)

SecretConfigExtensions == {"yml", "yaml", "json", "toml"}

\* re.search(pattern, file) for DEFAULT_PATTERNS[k - 1]; a staged path holds
\* no line break, so $ matches at its end only
MatchesPattern(k, file) ==
    CASE k = 1 -> EndsWith(file, ".env")
      [] k = 2 -> EndsWith(file, ".secret")
      [] k = 3 -> Contains(file, "credentials")
      [] k = 4 -> EndsWith(file, "_key")
      [] k = 5 -> \E ext \in SecretConfigExtensions :
                      \/ EndsWith(file, "secret." \o ext)
                      \/ EndsWith(file, "secrets." \o ext)

NumPatterns == 5

\* the inner loop: some pattern matches (the break keeps the file from
\* being appended twice)
IsRisky(file) == \E k \in 1..NumPatterns : MatchesPattern(k, file)

detect_risky_files(files) == SelectSeq(files, IsRisky)

-----------------------------------------------------------------------------
(* The prompts *)

\* a variant of prompt_risky_files that looks for a y anywhere in the answer
prompt_risky_files_anywhere(answer) == Contains(Lower(answer), "y")

\* prompt_risky_files: the value returned for the line the user typed
prompt_risky_files(answer) == StartsWith(Lower(answer), "y")

\* a variant of prompt_user that keeps the first letter of the answer only
prompt_user_first_letter(line) == IF line = "" THEN "" ELSE Lower(CharAt(line, 1))

\* a variant of prompt_user that keeps the case of the answer
prompt_user_case_sensitive(line) == line

\* prompt_user: the value returned for the line the user typed
prompt_user(line) == Lower(line)

\* a variant of edit_message that trims the text it read
edit_message_result_stripped(text) == Strip(text)

\* CommitMessageEditor.edit_message: the value returned for the text read
\* back from the temporary file
edit_message_result(text) == text

-----------------------------------------------------------------------------
(* What the collaborators and the user may hand to a run *)

\* GitCommand.get_staged_files: the staged paths
StagedFileInputs ==
    { <<>>,
      <<"notes.txt">>,
      <<".env", "notes.txt">>,
      <<"src/main.py", "config/secrets.yml">> }

SmallDiff == "diff --git a/f b/f\n--- a/f\n+++ b/f\n@@ -1 +1 @@\n-old\n+new\n"

\* GitCommand.get_diff: the staged diff
DiffInputs == { "", " \n\n", "--- a/f\n+++ b/f\n", SmallDiff }

\* response.choices[0].message.content
ModelContents == { "", "  \n", "feat: add x", "^^^\nfix: y\n^^^" }

\* lines typed at "Commit anyway? (y/N): "
RiskyAnswers == { "y", "Yes", "N", "", "maybe" }

\* lines typed at the y/n/e prompt
UserInputs == { "y", "Y", "n", "e", "E", "yes", "" }

\* GitCommand.get_editor: the stripped output of git var GIT_EDITOR, empty
\* when git printed nothing
EditorPrograms == { "vi", "" }

\* what an editor may leave in the temporary file
EditedTexts == { "", "fix: by hand\n" }

-----------------------------------------------------------------------------
(* The flow of llm_commit *)

Terminal == {"COMMITTED", "ABORTED", "DONE_NOCHANGE", "FATAL"}

NoHist == [risky_answer |-> <<>>, generated |-> <<>>, lines |-> <<>>, created |-> <<>>,
           editor_rc |-> <<>>, file_texts |-> <<>>, commit_args |-> <<>>,
           commit_ok |-> <<>>, failed |-> {}]

Init ==
    /\ pc = "START"
    /\ exit_code = -1
    /\ staged_files = <<>>
    /\ risky_files = <<>>
    /\ diff = ""
    /\ llm_request = NoRequest
    /\ commit_message = ""
    /\ response = ""
    /\ git_editor = ""
    /\ tmp_path = 0
    /\ tmp_files = {}
    /\ effects = <<>>
    /\ hist = NoHist

Count(e) == Cardinality({i \in 1..Len(effects) : effects[i] = e})

NumPrompts == Count("prompt_user")

\* sys.exit(code) where no handler catches SystemExit, or the return of
\* llm_commit (code 0)
Exit(state, code, done) ==
    /\ pc' = state
    /\ exit_code' = code
    /\ effects' = effects \o done

\* history h with the operation op noted as failed
Fail(h, op) == [h EXCEPT !.failed = @ \cup {op}]

\* history with one more line typed at the y/n/e prompt
Typed(line) == [hist EXCEPT !.lines = Append(@, line)]

\* except RuntimeError (lines 358-360): print to stderr, sys.exit(1)
RuntimeErrorExit(done, op, h) ==
    /\ Exit("FATAL", 1, done \o <<"print_error">>)
    /\ hist' = Fail(h, op)

\* an exception that is no RuntimeError leaves llm_commit: the interpreter
\* prints the traceback and exits with status 1
UncaughtExit(done, op, h) ==
    /\ Exit("FATAL", 1, done \o <<"traceback">>)
    /\ hist' = Fail(h, op)

\* lines 322-324
GetStagedFiles ==
    /\ pc = "START"
    /\ \/ /\ RuntimeErrorExit(<<"get_staged_files">>, "get_staged_files", hist)
          /\ UNCHANGED <<staged_files, risky_files>>
       \/ \E files \in StagedFileInputs :
            /\ staged_files' = files
            /\ risky_files' = detect_risky_files(files)
            /\ pc' = "RISKY_CHECK"
            /\ effects' = effects \o <<"get_staged_files">>
            /\ UNCHANGED <<exit_code, hist>>
    /\ UNCHANGED <<diff, llm_request, commit_message, response, git_editor,
                   tmp_path, tmp_files>>

\* line 326, risky_files empty: no prompt
RiskyClear ==
    /\ pc = "RISKY_CHECK"
    /\ risky_files = <<>>
    /\ pc' = "DIFF_CHECK"
    /\ UNCHANGED <<exit_code, staged_files, risky_files, diff, llm_request,
                   commit_message, response, git_editor, tmp_path, tmp_files,
                   effects, hist>>

\* line 328: sys.exit(1)
RiskyAbortExitCode == 1

\* lines 326-328, risky_files not empty: prompt_risky_files decides
PromptRisky ==
    /\ pc = "RISKY_CHECK"
    /\ risky_files # <<>>
    /\ \E answer \in RiskyAnswers :
         /\ hist' = [hist EXCEPT !.risky_answer = <<answer>>]
         /\ IF prompt_risky_files(answer)
            THEN /\ pc' = "DIFF_CHECK"
                 /\ effects' = effects \o <<"prompt_risky_files">>
                 /\ UNCHANGED exit_code
            ELSE Exit("ABORTED", RiskyAbortExitCode, <<"prompt_risky_files", "print_aborted">>)
    /\ UNCHANGED <<staged_files, risky_files, diff, llm_request, commit_message,
                   response, git_editor, tmp_path, tmp_files>>

\* a variant of DiffIsEmpty without the strip
DiffIsEmptyUnstripped(d) == d = ""

\* line 332: not diff.strip()
DiffIsEmpty(d) == Strip(d) = ""

\* lines 331-335
GetDiff ==
    /\ pc = "DIFF_CHECK"
    /\ \/ /\ RuntimeErrorExit(<<"get_diff">>, "get_diff", hist)
          /\ UNCHANGED diff
       \/ \E d \in DiffInputs :
            /\ diff' = d
            /\ IF DiffIsEmpty(d)
               THEN Exit("DONE_NOCHANGE", 0, <<"get_diff", "print_no_changes">>)
               ELSE /\ pc' = "GENERATING"
                    /\ effects' = effects \o <<"get_diff">>
                    /\ UNCHANGED exit_code
            /\ UNCHANGED hist
    /\ UNCHANGED <<staged_files, risky_files, llm_request, commit_message,
                   response, git_editor, tmp_path, tmp_files>>

\* line 337: generator.generate(diff), lines 193-224
Generate ==
    /\ pc = "GENERATING"
    /\ llm_request' = ChatRequest(diff)
    /\ \/ /\ RuntimeErrorExit(<<"llm_call">>, "llm_call", hist)
          /\ UNCHANGED commit_message
       \/ \E content \in ModelContents :
            IF ContentRejected(content)
            THEN /\ RuntimeErrorExit(<<"llm_call">>, "empty_response", hist)
                 /\ UNCHANGED commit_message
            ELSE /\ commit_message' = CleanContent(content)
                 /\ hist' = [hist EXCEPT !.generated = <<CleanContent(content)>>]
                 /\ pc' = "PRESENTING"
                 /\ effects' = effects \o <<"llm_call">>
                 /\ UNCHANGED exit_code
    /\ UNCHANGED <<staged_files, risky_files, diff, response, git_editor,
                   tmp_path, tmp_files>>

\* lines 340-344: the answer is "y"; subprocess.run in commit() does not
\* look at git's exit status, so commit() returns whether or not git
\* made the commit, the loop breaks and llm_commit returns
PromptAccept ==
    /\ pc = "PRESENTING"
    /\ \E line \in UserInputs, git_ok \in BOOLEAN :
         /\ prompt_user(line) = "y"
         /\ response' = prompt_user(line)
         /\ hist' = [Typed(line) EXCEPT !.commit_args = Append(@, commit_message),
                                        !.commit_ok = Append(@, git_ok),
                                        !.failed = IF git_ok THEN @ ELSE @ \cup {"commit"}]
         /\ Exit("COMMITTED", 0, <<"prompt_user", "commit">>)
    /\ UNCHANGED <<staged_files, risky_files, diff, llm_request, commit_message,
                   git_editor, tmp_path, tmp_files>>

\* a variant of RejectExitCode: the same status as the other abort
RejectExitCodeLikeRisky == RiskyAbortExitCode

\* line 347: sys.exit(0)
RejectExitCode == 0

\* lines 345-347: the answer is "n"
PromptReject ==
    /\ pc = "PRESENTING"
    /\ \E line \in UserInputs :
         /\ prompt_user(line) = "n"
         /\ response' = prompt_user(line)
         /\ hist' = Typed(line)
         /\ Exit("ABORTED", RejectExitCode, <<"prompt_user", "print_aborted">>)
    /\ UNCHANGED <<staged_files, risky_files, diff, llm_request, commit_message,
                   git_editor, tmp_path, tmp_files>>

\* lines 352-356: any other answer prints the hint and prompts again
PromptInvalid ==
    /\ pc = "PRESENTING"
    /\ NumPrompts + 1 < MaxPrompts
    /\ \E line \in UserInputs :
         /\ prompt_user(line) \notin {"y", "n", "e"}
         /\ response' = prompt_user(line)
         /\ hist' = Typed(line)
         /\ effects' = effects \o <<"prompt_user", "print_hint">>
    /\ UNCHANGED <<pc, exit_code, staged_files, risky_files, diff, llm_request,
                   commit_message, git_editor, tmp_path, tmp_files>>

\* NamedTemporaryFile(delete=False): a name no existing file has
FreshName == Len(hist.created) + 1

\* lines 348-350 up to the launch of the editor: the answer is "e";
\* get_editor(), then lines 277-279 of edit_message, which run before the
\* try statement of line 281
PromptEdit ==
    /\ pc = "PRESENTING"
    /\ NumPrompts + 1 < MaxPrompts
    /\ \E line \in UserInputs :
         /\ prompt_user(line) = "e"
         /\ response' = prompt_user(line)
         /\ \/ \* get_editor raises RuntimeError
               /\ RuntimeErrorExit(<<"prompt_user", "get_editor">>, "get_editor", Typed(line))
               /\ UNCHANGED <<git_editor, tmp_path, tmp_files>>
            \/ \E program \in EditorPrograms :
                 /\ git_editor' = program
                 /\ \/ \* the temporary file cannot be created (OSError)
                       /\ UncaughtExit(<<"prompt_user", "get_editor">>, "tmp_create", Typed(line))
                       /\ UNCHANGED <<tmp_path, tmp_files>>
                    \/ \* tmp.write, or the close that flushes it, raises
                       \* (UnicodeEncodeError, OSError): the file stays,
                       \* the try statement is never entered
                       /\ tmp_files' = tmp_files \cup {<<FreshName, "">>}
                       /\ UNCHANGED tmp_path
                       /\ UncaughtExit(<<"prompt_user", "get_editor", "tmp_create">>, "tmp_write",
                                       [Typed(line) EXCEPT !.created = Append(@, FreshName)])
                    \/ \* written and closed: subprocess.call starts the editor
                       /\ tmp_files' = tmp_files \cup {<<FreshName, commit_message>>}
                       /\ tmp_path' = FreshName
                       /\ pc' = "EDITING"
                       /\ effects' = effects \o <<"prompt_user", "get_editor", "tmp_create">>
                       /\ hist' = [Typed(line) EXCEPT !.created = Append(@, FreshName)]
                       /\ UNCHANGED exit_code
    /\ UNCHANGED <<staged_files, risky_files, diff, llm_request, commit_message>>

\* os.unlink(tmp_path) of the finally clause
Unlinked == {f \in tmp_files : f[1] # tmp_path}

\* lines 281-286 and 350-351: the editor ends (or never started), the file
\* is read back, the finally clause removes it
EditorExit ==
    /\ pc = "EDITING"
    /\ tmp_files' = Unlinked
    /\ tmp_path' = 0
    /\ \/ \* subprocess.call raises: the program cannot be started
          /\ UncaughtExit(<<"editor_launch", "tmp_unlink">>, "editor_launch", hist)
          /\ UNCHANGED commit_message
       \/ \* the editor ran and returned rc, leaving text in the file (an
          \* editor that failed is taken to have left the file as written)
          /\ git_editor # ""
          /\ \E rc \in {0, 1}, text \in EditedTexts \cup {commit_message} :
               /\ rc # 0 => text = commit_message
               /\ \/ \* open or read raises
                     /\ UncaughtExit(<<"editor_launch", "tmp_unlink">>, "tmp_read",
                                     [hist EXCEPT !.editor_rc = Append(@, rc)])
                     /\ UNCHANGED commit_message
                  \/ /\ commit_message' = edit_message_result(text)
                     /\ hist' = [hist EXCEPT !.editor_rc = Append(@, rc),
                                             !.file_texts = Append(@, text)]
                     /\ pc' = "PRESENTING"
                     /\ effects' = effects \o <<"editor_launch", "tmp_read", "tmp_unlink">>
                     /\ UNCHANGED exit_code
    /\ UNCHANGED <<staged_files, risky_files, diff, llm_request, response, git_editor>>

Next ==
    \/ GetStagedFiles
    \/ RiskyClear
    \/ PromptRisky
    \/ GetDiff
    \/ Generate
    \/ PromptAccept
    \/ PromptReject
    \/ PromptInvalid
    \/ PromptEdit
    \/ EditorExit

Spec == Init /\ [][Next]_vars

-----------------------------------------------------------------------------
(* CommitMessageGenerator.generate on its own: the size tier and the token  *)
(* budget of diffs that change 0..MaxChanged lines                          *)

FileHeader == "diff --git a/f b/f\nindex 1..2 100644\n--- a/f\n+++ b/f\n@@ -1,9 +1,9 @@\n"

\* n changed lines, added and removed in turn
ChangedLines(n) == Rep("+new line\n-old line\n", n \div 2) \o Rep("+last\n", n % 2)

\* a diff that changes n lines: bare; with the headers git prints and
\* context lines; without a final line break
DiffOfSize(n, style) ==
    CASE style = 1 -> ChangedLines(n)
      [] style = 2 -> FileHeader \o " context\n" \o ChangedLines(n) \o " context\n"
      [] style = 3 -> FileHeader \o ChangedLines(n) \o "\\ No newline at end of file"
      [] style = 4 -> "--- a/g\n+++ b/g\n" \o ChangedLines(n) \o "+++i;\n--- note\n"

DiffStyles == {1, 2, 3, 4}

InitClassify ==
    /\ pc = "GEN_USER_MESSAGE"
    /\ exit_code = -1
    /\ staged_files = <<>>
    /\ risky_files = <<>>
    /\ \E n \in 0..MaxChanged, style \in DiffStyles :
         /\ diff = DiffOfSize(n, style)
         /\ hist = [changed |-> n, style |-> style]
    /\ llm_request = NoRequest
    /\ commit_message = ""
    /\ response = ""
    /\ git_editor = ""
    /\ tmp_path = 0
    /\ tmp_files = {}
    /\ effects = <<>>

\* line 196
BuildUserMessage ==
    /\ pc = "GEN_USER_MESSAGE"
    /\ llm_request' = [llm_request EXCEPT !.user_message = _get_user_message(diff)]
    /\ pc' = "GEN_MAX_TOKENS"
    /\ UNCHANGED <<exit_code, staged_files, risky_files, diff, commit_message,
                   response, git_editor, tmp_path, tmp_files, effects, hist>>

\* lines 199-205
ChooseMaxTokens ==
    /\ pc = "GEN_MAX_TOKENS"
    /\ llm_request' = [llm_request EXCEPT !.max_tokens = max_tokens(diff)]
    /\ pc' = "GEN_CALL"
    /\ UNCHANGED <<exit_code, staged_files, risky_files, diff, commit_message,
                   response, git_editor, tmp_path, tmp_files, effects, hist>>

NextClassify == BuildUserMessage \/ ChooseMaxTokens

SpecClassify == InitClassify /\ [][NextClassify]_vars

-----------------------------------------------------------------------------
(* Properties *)

Last(q) == q[Len(q)]

AcceptLines == {"y", "Y"}
RejectLines == {"n", "N"}
EditLines == {"e", "E"}

\* C1: commit is invoked only after the user typed y at the y/n/e prompt, at
\* most once, and as the last effect of the run: a run that ended by a
\* declined risky-file prompt, an empty diff, a rejected draft or an error
\* has not invoked it, and nothing follows it.
C1_CommitOnlyOnAccept ==
    /\ Count("commit") <= 1
    /\ Len(hist.commit_args) = Count("commit")
    /\ Count("commit") = 1 =>
         /\ pc = "COMMITTED"
         /\ Last(effects) = "commit"
         /\ effects[Len(effects) - 1] = "prompt_user"
         /\ Last(hist.lines) \in AcceptLines
    /\ pc \in {"ABORTED", "DONE_NOCHANGE", "FATAL"} => Count("commit") = 0
    /\ pc = "COMMITTED" => Count("commit") = 1

C1_Witness ==
    /\ pc = "COMMITTED"
    /\ Count("commit") = 1
    /\ Count("editor_launch") = 1
    /\ Count("print_hint") = 1

\* an answer to "Commit anyway? (y/N): " that does not begin with y or Y
NonAffirmative(answer) == ~StartsWith(answer, "y") /\ ~StartsWith(answer, "Y")

RiskySuffixes == {".env", "secrets.yml"}
HasRiskyFile == \E i \in 1..Len(staged_files), x \in RiskySuffixes : EndsWith(staged_files[i], x)

\* C2: with a risky file staged the risky-file prompt is asked before
\* anything else happens, and a non-affirmative answer ends the run in
\* ABORTED with exit code 1, the diff never fetched, the model and commit
\* never invoked.
C2_RiskyDeclineAborts ==
    /\ (HasRiskyFile /\ pc \notin {"START", "RISKY_CHECK"}) => hist.risky_answer # <<>>
    /\ (hist.risky_answer # <<>> /\ NonAffirmative(hist.risky_answer[1])) =>
         /\ pc = "ABORTED"
         /\ exit_code = 1
         /\ Count("get_diff") = 0
         /\ Count("llm_call") = 0
         /\ Count("commit") = 0

C2_Witness ==
    /\ HasRiskyFile
    /\ hist.risky_answer = <<"maybe">>
    /\ pc = "ABORTED"
    /\ exit_code = 1

WhitespaceOnly(d) == \A i \in 1..Len(d) : CharAt(d, i) \in {" ", "\t", "\n", "\r"}

DiffFetched == Count("get_diff") = 1 /\ "get_diff" \notin hist.failed

\* C3: a staged diff that is empty or whitespace-only ends the run in
\* DONE_NOCHANGE with exit code 0; the model is never invoked, the y/n/e
\* prompt never shown, commit never invoked.
C3_EmptyDiffNoChange ==
    (DiffFetched /\ WhitespaceOnly(diff)) =>
        /\ pc = "DONE_NOCHANGE"
        /\ exit_code = 0
        /\ Count("llm_call") = 0
        /\ Count("prompt_user") = 0
        /\ Count("commit") = 0

C3_Witness ==
    /\ DiffFetched
    /\ diff = " \n\n"
    /\ pc = "DONE_NOCHANGE"

\* the draft the user has accepted: the text of the file after the most
\* recent edit, or the generated message when nothing was edited
CurrentDraft ==
    IF hist.file_texts # <<>> THEN Last(hist.file_texts) ELSE hist.generated[1]

InvalidStep == effects' = effects \o <<"prompt_user", "print_hint">>

\* C4: the message passed to commit is the current draft: the full,
\* untrimmed text of the temporary file after the most recent edit, else the
\* generated message; an edit never calls the model again and an invalid
\* input never changes the draft.
C4_CommitsCurrentDraft ==
    [][ /\ pc' = "COMMITTED" => hist'.commit_args = <<CurrentDraft'>>
        /\ pc \in {"PRESENTING", "EDITING"} => Count("llm_call")' = Count("llm_call")
        /\ pc' \in {"PRESENTING", "EDITING", "COMMITTED"} => Count("llm_call")' = 1
        /\ InvalidStep => commit_message' = commit_message
        /\ pc' = "PRESENTING" => commit_message' = CurrentDraft' ]_vars

C4_Witness ==
    /\ pc = "COMMITTED"
    /\ Len(hist.file_texts) = 1
    /\ hist.commit_args = <<"fix: by hand\n">>
    /\ Count("print_hint") = 1

\* C5: whenever the flow is in PRESENTING or in a terminal state no
\* temporary edit file exists, and every edit creates a file of its own.
C5_TempFileRemoved ==
    /\ (pc = "PRESENTING" \/ pc \in Terminal) => tmp_files = {}
    /\ \A i, j \in 1..Len(hist.created) : i # j => hist.created[i] # hist.created[j]

DraftRejected == pc = "ABORTED" /\ Count("prompt_user") > 0
RiskyDeclined == pc = "ABORTED" /\ Count("prompt_user") = 0

GitOperations == {"get_staged_files", "get_diff", "get_editor", "commit"}

\* C7: a run in which one of the four version-control operations failed
\* ends in FATAL with a non-zero exit code and the error shown; a failed
\* commit never ends as COMMITTED with code 0, a failed diff retrieval never
\* as the no-changes exit.
C7_GitFailurePropagates ==
    (pc \in Terminal /\ hist.failed \cap GitOperations # {}) =>
        /\ pc = "FATAL"
        /\ exit_code = 1
        /\ Last(effects) \in {"print_error", "traceback"}

\* C8: n changed lines give tier concise and 100 tokens up to 50, moderate
\* and 200 tokens up to 200, detailed and 400 tokens above; n counts the
\* lines that start with + or - but not with +++ or ---; the tier of the
\* prompt and the token budget never disagree.
C8_TierAndBudget ==
    LET n == hist.changed
        tier == llm_request.user_message.detail_level
        budget == llm_request.max_tokens
    IN  /\ pc \in {"GEN_MAX_TOKENS", "GEN_CALL"} =>
             /\ llm_request.user_message.diff_size = n
             /\ n <= 50 => tier = "concise"
             /\ (50 < n /\ n <= 200) => tier = "moderate"
             /\ n > 200 => tier = "detailed"
        /\ pc = "GEN_CALL" =>
             /\ n <= 50 => budget = 100
             /\ (50 < n /\ n <= 200) => budget = 200
             /\ n > 200 => budget = 400
             /\ <<tier, budget>> \in {<<"concise", 100>>, <<"moderate", 200>>, <<"detailed", 400>>}

C8_Witness ==
    /\ pc = "GEN_CALL"
    /\ hist.changed = 201
    /\ hist.style = 4
    /\ llm_request.max_tokens = 400

\* C9: the message is never empty: not the one generate returns, not the
\* one shown in PRESENTING, not the one passed to commit.
C9_MessageNonEmpty ==
    /\ \A i \in 1..Len(hist.generated) : hist.generated[i] # ""
    /\ pc = "PRESENTING" => commit_message # ""
    /\ \A i \in 1..Len(hist.commit_args) : hist.commit_args[i] # ""

\* C10: in PRESENTING a line that is y, n or e in either case leaves
\* PRESENTING; any other line prints the hint and prompts again, the draft
\* and everything else as they were, no collaborator invoked.
C10_InvalidInputSelfLoop ==
    [][ (pc = "PRESENTING" /\ Len(hist'.lines) = Len(hist.lines) + 1) =>
            IF Last(hist'.lines) \in AcceptLines \cup RejectLines \cup EditLines
            THEN pc' # "PRESENTING"
            ELSE /\ pc' = "PRESENTING"
                 /\ effects' = effects \o <<"prompt_user", "print_hint">>
                 /\ hist' = [hist EXCEPT !.lines = hist'.lines]
                 /\ UNCHANGED <<exit_code, staged_files, risky_files, diff, llm_request,
                                commit_message, git_editor, tmp_path, tmp_files>> ]_vars

C10_Witness ==
    /\ pc = "PRESENTING"
    /\ Count("print_hint") = 2
    /\ hist.lines = <<"yes", "">>

====
